---- MODULE Spec2Model ----
(***************************************************************************)
(* A model of main.py: the calendar utility's four operations              *)
(* (get_calendar_service, fetch_events, add_event, create_calendar), the   *)
(* local files they read and write, and the calendar service they call.    *)
(*                                                                         *)
(* Two specifications share the module.  SpecAuth runs the authenticator   *)
(* against token.json, credentials.json, the clock and the identity        *)
(* provider.  Spec runs the three calendar operations against a service    *)
(* double that stores what is inserted and answers events.list with the    *)
(* documented timeMin/timeMax semantics.                                   *)
(*                                                                         *)
(* Encoding of Python values:                                              *)
(*   None            the record NoCreds / NoSession / NoValue              *)
(*   str (names)     TLA+ strings, "" is the empty string                  *)
(*   str (times)     tuples: <<>> is '', <<d>> is the date 'd',            *)
(*                   <<d, m>> is the date-time 'dTm' (m minutes after      *)
(*                   midnight, wall clock, no offset)                      *)
(*   dict            a record; a missing key is a missing field            *)
(***************************************************************************)
EXTENDS Integers, Sequences, FiniteSets, TLC

VARIABLES
    tokenFile,      \* token.json: NoFile or the JSON written by line 32
    clientSecrets,  \* whether credentials.json is present and well-formed
    now,            \* the wall clock, in token lifetimes
    issued,         \* how many access tokens the identity provider has issued
    session,        \* the service object last returned by get_calendar_service
    auth,           \* what the last run of get_calendar_service did
    calendars,      \* the service's calendar list, in enumeration order
    events,         \* the service's stored events, in insertion order
    call,           \* the calendar operation that has just completed
    lastAdd         \* arguments of the add_event that succeeded just before

vars == <<tokenFile, clientSecrets, now, issued, session, auth,
          calendars, events, call, lastAdd>>

authVars == <<tokenFile, clientSecrets, now, issued, session, auth>>
calVars == <<calendars, events, call, lastAdd>>

(***************************************************************************)
(* Bounds of the model                                                     *)
(***************************************************************************)
MaxClock == 3
MaxTokens == 3
TokenLifetime == 1
MaxCalendars == 2
MaxEvents == 2

(***************************************************************************)
(* Part 1: the authenticator                                               *)
(***************************************************************************)
SCOPES == {"https://www.googleapis.com/auth/calendar"}

NoCreds == [none |-> TRUE]
NoFile == [absent |-> TRUE]
NoSession == [none |-> TRUE]

\* os.path.exists('token.json')
TokenFileExists(file) == file # NoFile

\* Credentials.to_json(): the keys written to token.json
to_json(creds) ==
    [json |-> "authorized_user",
     token |-> creds.token,
     refresh_token |-> creds.refresh_token,
     scopes |-> creds.scopes,
     expiry |-> creds.expiry]

\* Credentials.from_authorized_user_file('token.json', SCOPES): the scopes
\* argument replaces whatever scopes the file lists.
from_authorized_user_file(file, scopes) ==
    [token |-> file.token,
     refresh_token |-> file.refresh_token,
     scopes |-> scopes,
     expiry |-> file.expiry]

\* creds = None; if os.path.exists('token.json'): creds = ...
LoadCreds(file) ==
    IF TokenFileExists(file)
    THEN from_authorized_user_file(file, SCOPES)
    ELSE NoCreds

\* creds.expired
expired(creds, t) == t >= creds.expiry

validIgnoringExpiry(creds, t) == creds.token # 0

\* creds.valid
valid(creds, t) == creds.token # 0 /\ ~expired(creds, t)

NeedsAuthNegationDropped(creds, t) == creds = NoCreds \/ valid(creds, t)

\* if not creds or not creds.valid:
NeedsAuth(creds, t) == creds = NoCreds \/ ~valid(creds, t)

\* if creds and creds.expired and creds.refresh_token:
CanRefresh(creds, t) ==
    creds # NoCreds /\ expired(creds, t) /\ creds.refresh_token # 0

\* flow = InstalledAppFlow.from_client_secrets_file(...)
\* creds = flow.run_local_server(port=0)
\* secrets: credentials.json is usable; consentOK: the user grants consent;
\* grantRT: the provider hands out a refresh token; tok: the token it issues.
FlowBranch(secrets, consentOK, grantRT, t, tok) ==
    IF ~secrets
    THEN [ok |-> FALSE, error |-> "ConfigError", creds |-> NoCreds,
          refreshCalls |-> 0, flowCalls |-> 0, networkCalls |-> 0,
          refreshFailed |-> FALSE, path |-> "consent"]
    ELSE IF ~consentOK
    THEN [ok |-> FALSE, error |-> "ConsentError", creds |-> NoCreds,
          refreshCalls |-> 0, flowCalls |-> 1, networkCalls |-> 0,
          refreshFailed |-> FALSE, path |-> "consent"]
    ELSE [ok |-> TRUE, error |-> "none",
          creds |-> [token |-> tok,
                     refresh_token |-> IF grantRT THEN tok ELSE 0,
                     scopes |-> SCOPES,
                     expiry |-> t + TokenLifetime],
          refreshCalls |-> 0, flowCalls |-> 1, networkCalls |-> 1,
          refreshFailed |-> FALSE, path |-> "consent"]

RefreshBranchWithFallback(creds, refreshOK, secrets, consentOK, grantRT, t, tok) ==
    IF refreshOK
    THEN [ok |-> TRUE, error |-> "none",
          creds |-> [creds EXCEPT !.token = tok, !.expiry = t + TokenLifetime],
          refreshCalls |-> 1, flowCalls |-> 0, networkCalls |-> 1,
          refreshFailed |-> FALSE, path |-> "refresh"]
    ELSE LET f == FlowBranch(secrets, consentOK, grantRT, t, tok)
         IN  [f EXCEPT !.refreshCalls = 1, !.refreshFailed = TRUE,
                       !.networkCalls = f.networkCalls + 1]

\* creds.refresh(Request()): one network call; a failure raises and nothing
\* in get_calendar_service catches it.
RefreshBranch(creds, refreshOK, secrets, consentOK, grantRT, t, tok) ==
    IF refreshOK
    THEN [ok |-> TRUE, error |-> "none",
          creds |-> [creds EXCEPT !.token = tok, !.expiry = t + TokenLifetime],
          refreshCalls |-> 1, flowCalls |-> 0, networkCalls |-> 1,
          refreshFailed |-> FALSE, path |-> "refresh"]
    ELSE [ok |-> FALSE, error |-> "RefreshError", creds |-> creds,
          refreshCalls |-> 1, flowCalls |-> 0, networkCalls |-> 1,
          refreshFailed |-> TRUE, path |-> "refresh"]

PersistUnlessPresent(file, creds) ==
    IF TokenFileExists(file) THEN file ELSE to_json(creds)

\* with open('token.json', 'w') as token: token.write(creds.to_json())
Persist(file, creds) == to_json(creds)

\* service = build('calendar', 'v3', credentials=creds)
build(creds) == [api |-> "calendar", version |-> "v3", credentials |-> creds]

\* The whole of get_calendar_service, as a function of what it reads.
Authenticate(file, secrets, t, refreshOK, consentOK, grantRT, tok) ==
    LET loaded == LoadCreds(file)
    IN  IF ~NeedsAuth(loaded, t)
        THEN [ok |-> TRUE, error |-> "none", creds |-> loaded,
              refreshCalls |-> 0, flowCalls |-> 0, networkCalls |-> 0,
              refreshFailed |-> FALSE, path |-> "loaded",
              file |-> file, loaded |-> loaded]
        ELSE LET r == IF CanRefresh(loaded, t)
                      THEN RefreshBranch(loaded, refreshOK, secrets,
                                         consentOK, grantRT, t, tok)
                      ELSE FlowBranch(secrets, consentOK, grantRT, t, tok)
             IN  [ok |-> r.ok, error |-> r.error, creds |-> r.creds,
                  refreshCalls |-> r.refreshCalls, flowCalls |-> r.flowCalls,
                  networkCalls |-> r.networkCalls,
                  refreshFailed |-> r.refreshFailed, path |-> r.path,
                  file |-> IF r.ok THEN Persist(file, r.creds) ELSE file,
                  loaded |-> loaded]

NoAuth ==
    [outcome |-> "none", path |-> "none", refreshCalls |-> 0, flowCalls |-> 0,
     networkCalls |-> 0, refreshFailed |-> FALSE, loaded |-> NoCreds, at |-> 0]

\* get_calendar_service(verbosity)
GetCalendarService ==
    \E refreshOK \in BOOLEAN, consentOK \in BOOLEAN, grantRT \in BOOLEAN :
        LET r == Authenticate(tokenFile, clientSecrets, now, refreshOK,
                              consentOK, grantRT, issued + 1)
            newToken == r.ok /\ r.path # "loaded"
        IN  /\ newToken => issued < MaxTokens
            /\ tokenFile' = r.file
            /\ issued' = IF newToken THEN issued + 1 ELSE issued
            /\ session' = IF r.ok THEN build(r.creds) ELSE session
            /\ auth' = [outcome |-> IF r.ok THEN "returned" ELSE r.error,
                        path |-> r.path,
                        refreshCalls |-> r.refreshCalls,
                        flowCalls |-> r.flowCalls,
                        networkCalls |-> r.networkCalls,
                        refreshFailed |-> r.refreshFailed,
                        loaded |-> r.loaded,
                        at |-> now]
            /\ UNCHANGED <<clientSecrets, now, calVars>>

\* Time passes between runs of the program.
Tick ==
    /\ now < MaxClock
    /\ now' = now + 1
    /\ UNCHANGED <<tokenFile, clientSecrets, issued, session, auth, calVars>>

\* The user deletes token.json between runs.
RemoveTokenFile ==
    /\ tokenFile # NoFile
    /\ tokenFile' = NoFile
    /\ UNCHANGED <<clientSecrets, now, issued, session, auth, calVars>>

(***************************************************************************)
(* Part 2: the calendar service the program calls                          *)
(*                                                                         *)
(* Dates are day numbers of one year; Asia/Jerusalem is UTC+3 on the days  *)
(* from DSTStart up to DSTEnd and UTC+2 on the others.                     *)
(***************************************************************************)
DSTStart == 83
DSTEnd == 302
SummerDate == 256
WinterDate == SummerDate + 91
Dates == {SummerDate, WinterDate}

\* tz = pytz.timezone('Asia/Jerusalem'): the zone's offset from UTC, in
\* minutes, on day d.
UtcOffsetMinutes(d) == IF DSTStart <= d /\ d < DSTEnd THEN 180 ELSE 120

\* The instant (seconds from the start of the year, UTC) of wall-clock
\* second s of day d at an offset of off minutes.
Instant(d, s, off) == d * 86400 + s - off * 60

\* The instant of a time sent with 'timeZone': 'Asia/Jerusalem'.
ZoneInstant(d, s) == Instant(d, s, UtcOffsetMinutes(d))

\* Python's dict.get(key, default)
get(dict, key, default) == IF key \in DOMAIN dict THEN dict[key] ELSE default

\* None where a time string is expected
NoneTime == <<0, 0, 0>>

\* The instant an event's 'start' or 'end' object denotes.
TimeInstant(t) ==
    IF "dateTime" \in DOMAIN t
    THEN ZoneInstant(t.dateTime[1], t.dateTime[2] * 60)
    ELSE ZoneInstant(t.date[1], 0)

IdNames == <<"cal1", "cal2", "cal3", "cal4">>
LinkNames == <<"link1", "link2", "link3", "link4">>
Primary == [id |-> "primary", summary |-> "Personal"]

CalendarIdsOf(cals) == {cals[i].id : i \in 1..Len(cals)}
CalendarNamesOf(cals) == {cals[i].summary : i \in 1..Len(cals)}

\* Stable insertion of an event into a list ordered by start instant.
RECURSIVE InsertByStart(_, _)
InsertByStart(sorted, e) ==
    IF sorted = <<>> THEN <<e>>
    ELSE IF TimeInstant(e.start) < TimeInstant(Head(sorted).start)
         THEN <<e>> \o sorted
         ELSE <<Head(sorted)>> \o InsertByStart(Tail(sorted), e)

RECURSIVE OrderByStartTime(_)
OrderByStartTime(evs) ==
    IF evs = <<>> THEN <<>>
    ELSE InsertByStart(OrderByStartTime(SubSeq(evs, 1, Len(evs) - 1)),
                       evs[Len(evs)])

RECURSIVE ItemsOf(_)
ItemsOf(stored) ==
    IF stored = <<>> THEN <<>>
    ELSE <<Head(stored).item>> \o ItemsOf(Tail(stored))

\* service.events().list(calendarId, timeMin, timeMax, singleEvents=True,
\* orderBy='startTime'): the calendar's events that end after timeMin and
\* start before timeMax (both bounds exclusive), by start time ascending.
ServiceEventsList(stored, calendarId, timeMin, timeMax) ==
    LET In(s) == /\ s.calendarId = calendarId
                 /\ TimeInstant(s.item["end"]) > timeMin
                 /\ TimeInstant(s.item.start) < timeMax
    IN  OrderByStartTime(ItemsOf(SelectSeq(stored, In)))

(***************************************************************************)
(* Part 3: fetch_events                                                    *)
(***************************************************************************)
\* dt.strftime('%Y-%m-%dT00:00:00+02:00'): the offset is a literal of the
\* format string, whatever offset tz.localize gave dt.
time_min(dt) == [day |-> dt.day, second |-> 0, offset |-> 120]

\* dt.strftime('%Y-%m-%dT23:59:59+02:00')
time_max(dt) == [day |-> dt.day, second |-> 86399, offset |-> 120]

\* dt = tz.localize(datetime.fromisoformat(date))
localize(date) == [day |-> date[1], offset |-> UtcOffsetMinutes(date[1])]

\* The instant an RFC 3339 timestamp denotes.
Rfc3339Instant(ts) == Instant(ts.day, ts.second, ts.offset)

EventDataSwapped(calendar_name, event) ==
    [CalendarName |-> calendar_name,
     EventSummary |-> get(event, "summary", "Unknown"),
     EventStart |-> get(event["end"], "dateTime", get(event["end"], "date", NoneTime)),
     EventEnd |-> get(event.start, "dateTime", get(event.start, "date", NoneTime))]

\* event_data = {'Calendar Name': ..., 'Event Summary': ..., ...}
EventData(calendar_name, event) ==
    [CalendarName |-> calendar_name,
     EventSummary |-> get(event, "summary", "Unknown"),
     EventStart |-> get(event.start, "dateTime", get(event.start, "date", NoneTime)),
     EventEnd |-> get(event["end"], "dateTime", get(event["end"], "date", NoneTime))]

df_prepend(df, row) == <<row>> \o df

\* df = df.append(event_data, ignore_index=True)
df_append(df, row) == Append(df, row)

\* for event in events: ... df = df.append(...)
RECURSIVE ForEachEvent(_, _, _)
ForEachEvent(df, calendar_name, evs) ==
    IF evs = <<>> THEN df
    ELSE ForEachEvent(df_append(df, EventData(calendar_name, Head(evs))),
                      calendar_name, Tail(evs))

\* for calendar in calendar_list: ... (responses[i] is what the list call
\* for the i-th calendar returned)
RECURSIVE ForEachCalendar(_, _, _, _)
ForEachCalendar(df, calendar_list, responses, i) ==
    IF i > Len(calendar_list) THEN df
    ELSE ForEachCalendar(
             ForEachEvent(df, calendar_list[i].summary, responses[i]),
             calendar_list, responses, i + 1)

WarnOnlyWhenNoCalendars(df, calendar_list) == calendar_list = <<>>

\* if df.empty: warnings.warn("No events found for the specified date.")
WarnsEmpty(df, calendar_list) == df = <<>>

\* The messages fetch_events prints when verbosity is set.
RECURSIVE NoEventsMessages(_, _, _)
NoEventsMessages(calendar_list, responses, i) ==
    IF i > Len(calendar_list) THEN <<>>
    ELSE (IF responses[i] = <<>> THEN <<calendar_list[i].summary>> ELSE <<>>)
         \o NoEventsMessages(calendar_list, responses, i + 1)

\* The whole of fetch_events.  failAt = 0: every network call succeeds;
\* failAt = k: the k-th network call (1 is the calendar enumeration) raises.
fetch_events(service, date, verbosity, cals, stored, failAt) ==
    LET args == [service |-> service, date |-> date, verbosity |-> verbosity]
        failed(error, n) ==
            [op |-> "fetch_events", outcome |-> error, args |-> args,
             networkCalls |-> n, warned |-> FALSE, printed |-> <<>>,
             calendar_list |-> <<>>, responses |-> <<>>, ret |-> <<>>]
    IN  IF service = NoSession THEN failed("AssertionError", 0)
        ELSE IF date = <<>> THEN failed("ValueError", 0)
        ELSE
        LET dt == localize(date)
            tmin == Rfc3339Instant(time_min(dt))
            tmax == Rfc3339Instant(time_max(dt))
            responses == [i \in 1..Len(cals) |->
                             ServiceEventsList(stored, cals[i].id, tmin, tmax)]
            df == ForEachCalendar(<<>>, cals, responses, 1)
        IN  IF failAt # 0 THEN failed("ApiError", failAt)
            ELSE [op |-> "fetch_events", outcome |-> "ok", args |-> args,
                  networkCalls |-> 1 + Len(cals),
                  warned |-> WarnsEmpty(df, cals),
                  printed |-> IF verbosity
                              THEN <<"Fetching events">>
                                   \o NoEventsMessages(cals, responses, 1)
                              ELSE <<>>,
                  calendar_list |-> cals, responses |-> responses,
                  ret |-> df]

(***************************************************************************)
(* Part 4: add_event and create_calendar                                   *)
(***************************************************************************)
\* Python truthiness of a str argument that holds a name
Truthy(v) == v # ""

\* Python truthiness of a str argument that holds a time
TruthyTime(v) == v # <<>>

EssentialDetailsWithoutEnd(calendar_id, summary, start_time, end_time) ==
    Truthy(calendar_id) /\ Truthy(summary) /\ TruthyTime(start_time)

\* assert calendar_id and summary and start_time and end_time
EssentialDetails(calendar_id, summary, start_time, end_time) ==
    Truthy(calendar_id) /\ Truthy(summary) /\ TruthyTime(start_time)
        /\ TruthyTime(end_time)

\* event = {'summary': ..., 'location': ..., 'description': ..., 'start': ..., 'end': ...}
EventBody(summary, start_time, end_time, description, location) ==
    [summary |-> summary,
     location |-> location,
     description |-> description,
     start |-> [dateTime |-> start_time, timeZone |-> "Asia/Jerusalem"],
     end |-> [dateTime |-> end_time, timeZone |-> "Asia/Jerusalem"]]

\* What service.events().insert(...).execute() returns: the stored body with
\* the identifier and link the service assigns to the n-th event.
InsertedEvent(body, n) ==
    [summary |-> body.summary,
     location |-> body.location,
     description |-> body.description,
     start |-> body.start,
     end |-> body["end"],
     id |-> n,
     htmlLink |-> LinkNames[n]]

NoValue == [none |-> TRUE]

AddEventReturningEvent(event, verbosity) ==
    [ret |-> event,
     printed |-> IF verbosity THEN <<get(event, "htmlLink", "None")>> ELSE <<>>]

\* if verbosity: print(f"Event created: {event.get('htmlLink')}"); the
\* function ends without a return statement.
AddEventResult(event, verbosity) ==
    [ret |-> NoValue,
     printed |-> IF verbosity THEN <<get(event, "htmlLink", "None")>> ELSE <<>>]

\* The whole of add_event.  accept: the service accepts the insertion.
add_event(service, calendar_id, summary, start_time, end_time, description, location, verbosity, cals, stored, accept) ==
    LET args == [service |-> service, calendar_id |-> calendar_id,
                 summary |-> summary, start_time |-> start_time,
                 end_time |-> end_time, verbosity |-> verbosity]
        failed(error, n) ==
            [op |-> "add_event", outcome |-> error, args |-> args,
             networkCalls |-> n, printed |-> <<>>, ret |-> NoValue,
             response |-> NoValue, stored |-> stored]
    IN  IF service = NoSession THEN failed("AssertionError", 0)
        ELSE IF ~EssentialDetails(calendar_id, summary, start_time, end_time)
        THEN failed("AssertionError", 0)
        ELSE IF ~(accept /\ calendar_id \in CalendarIdsOf(cals))
        THEN failed("ApiError", 1)
        ELSE
        LET body == EventBody(summary, start_time, end_time, description,
                              location)
            event == InsertedEvent(body, Len(stored) + 1)
            r == AddEventResult(event, verbosity)
        IN  [op |-> "add_event", outcome |-> "ok", args |-> args,
             networkCalls |-> 1, printed |-> r.printed, ret |-> r.ret,
             response |-> event,
             stored |-> Append(stored,
                               [calendarId |-> calendar_id, item |-> event])]

\* calendar = {'summary': summary, 'timeZone': 'Asia/Jerusalem'}
CalendarBody(summary) == [summary |-> summary, timeZone |-> "Asia/Jerusalem"]

\* What service.calendars().insert(body=calendar).execute() returns for the
\* n-th calendar the service creates.
InsertedCalendar(body, n) ==
    [id |-> IdNames[n], summary |-> body.summary, timeZone |-> body.timeZone]

\* if verbosity: print(f"Created calendar: {summary}, ID: {id}"); the
\* function ends without a return statement.
CreateCalendarResult(created_calendar, verbosity) ==
    [ret |-> NoValue,
     printed |-> IF verbosity
                 THEN <<created_calendar.summary, created_calendar.id>>
                 ELSE <<>>]

\* The whole of create_calendar.  created: how many calendars the service
\* has created so far.
create_calendar(service, summary, verbosity, cals, created, accept) ==
    LET args == [service |-> service, summary |-> summary,
                 verbosity |-> verbosity]
        failed(error, n) ==
            [op |-> "create_calendar", outcome |-> error, args |-> args,
             networkCalls |-> n, printed |-> <<>>, ret |-> NoValue,
             response |-> NoValue, calendars |-> cals]
    IN  IF service = NoSession THEN failed("AssertionError", 0)
        ELSE IF ~Truthy(summary) THEN failed("AssertionError", 0)
        ELSE IF ~accept THEN failed("ApiError", 1)
        ELSE
        LET created_calendar == InsertedCalendar(CalendarBody(summary),
                                                 created + 1)
            r == CreateCalendarResult(created_calendar, verbosity)
        IN  [op |-> "create_calendar", outcome |-> "ok", args |-> args,
             networkCalls |-> 1, printed |-> r.printed, ret |-> r.ret,
             response |-> created_calendar,
             calendars |-> Append(cals, [id |-> created_calendar.id,
                                         summary |-> created_calendar.summary])]

(***************************************************************************)
(* Part 5: the caller and the specifications                               *)
(***************************************************************************)
NoCall == [op |-> "none"]
NoAdd == [none |-> TRUE]

\* A service object as get_calendar_service returns it.
TheService ==
    build([token |-> 1, refresh_token |-> 1, scopes |-> SCOPES, expiry |-> 1])

Services == {NoSession, TheService}
CalendarIdInputs == {"", "primary", IdNames[1]}
EventSummaryInputs == {"", "Meeting"}
CalendarSummaryInputs == {"", "Work"}
DateInputs == {<<>>, <<SummerDate>>, <<WinterDate>>}

\* (start_time, end_time) pairs: early and mid-day events of a summer day,
\* an early event of a winter day, an event that ends before it starts, and
\* pairs with an empty string.
StartEndInputs ==
    { <<<<SummerDate, 15>>, <<SummerDate, 45>>>>,
      <<<<SummerDate, 600>>, <<SummerDate, 660>>>>,
      <<<<WinterDate, 15>>, <<WinterDate, 45>>>>,
      <<<<WinterDate, 660>>, <<WinterDate, 600>>>>,
      <<<<>>, <<SummerDate, 45>>>>,
      <<<<SummerDate, 15>>, <<>>>> }

CreatedCalendars(cals) ==
    Cardinality({i \in 1..Len(cals) : cals[i].id # Primary.id})

AddEvent ==
    /\ call = NoCall
    /\ \E service \in Services, calendar_id \in CalendarIdInputs,
          summary \in EventSummaryInputs, se \in StartEndInputs,
          verbosity \in BOOLEAN, accept \in BOOLEAN :
          LET r == add_event(service, calendar_id, summary, se[1], se[2],
                             "", "", verbosity, calendars, events, accept)
          IN  /\ r.outcome = "ok" => Len(events) < MaxEvents
              /\ events' = r.stored
              /\ call' = r
              /\ lastAdd' = IF r.outcome = "ok"
                            THEN [calendar_id |-> calendar_id,
                                  summary |-> summary,
                                  start_time |-> se[1],
                                  end_time |-> se[2]]
                            ELSE NoAdd
    /\ UNCHANGED <<calendars, authVars>>

CreateCalendar ==
    /\ call = NoCall
    /\ \E service \in Services, summary \in CalendarSummaryInputs,
          verbosity \in BOOLEAN, accept \in BOOLEAN :
          LET r == create_calendar(service, summary, verbosity, calendars,
                                   CreatedCalendars(calendars), accept)
          IN  /\ r.outcome = "ok" => Len(calendars) < MaxCalendars
              /\ calendars' = r.calendars
              /\ call' = r
              /\ lastAdd' = NoAdd
    /\ UNCHANGED <<events, authVars>>

FetchEvents ==
    /\ call = NoCall
    /\ \E service \in Services, date \in DateInputs, verbosity \in BOOLEAN,
          failAt \in 0..(Len(calendars) + 1) :
          call' = fetch_events(service, date, verbosity, calendars, events,
                               failAt)
    /\ UNCHANGED <<calendars, events, lastAdd, authVars>>

\* The caller goes on to its next statement.  What add_event inserted stays
\* "just inserted" only until the operation after it has completed.
Continue ==
    /\ call # NoCall
    /\ call' = NoCall
    /\ lastAdd' = IF call.op = "add_event" THEN lastAdd ELSE NoAdd
    /\ UNCHANGED <<calendars, events, authVars>>

\* Another client of the same account stores an all-day event without a
\* title (fetch_events reads 'date' and defaults the summary for these).
OtherClientAddsEvent ==
    /\ call = NoCall
    /\ Len(events) < MaxEvents
    /\ \E i \in 1..Len(calendars), d \in Dates :
          events' = Append(events,
              [calendarId |-> calendars[i].id,
               item |-> [start |-> [date |-> <<d>>],
                         end |-> [date |-> <<d + 1>>],
                         id |-> Len(events) + 1,
                         htmlLink |-> LinkNames[Len(events) + 1]]])
    /\ lastAdd' = NoAdd
    /\ UNCHANGED <<calendars, call, authVars>>

Init ==
    /\ tokenFile = NoFile
    /\ clientSecrets = TRUE
    /\ now = 0
    /\ issued = 0
    /\ session = NoSession
    /\ auth = NoAuth
    /\ calendars \in {<<>>, <<Primary>>}
    /\ events = <<>>
    /\ call = NoCall
    /\ lastAdd = NoAdd

Next ==
    \/ AddEvent
    \/ CreateCalendar
    \/ FetchEvents
    \/ Continue
    \/ OtherClientAddsEvent

Spec == Init /\ [][Next]_vars

InitAuth ==
    /\ tokenFile = NoFile
    /\ clientSecrets \in BOOLEAN
    /\ now = 0
    /\ issued = 0
    /\ session = NoSession
    /\ auth = NoAuth
    /\ calendars = <<>>
    /\ events = <<>>
    /\ call = NoCall
    /\ lastAdd = NoAdd

NextAuth == GetCalendarService \/ Tick \/ RemoveTokenFile

SpecAuth == InitAuth /\ [][NextAuth]_vars

(***************************************************************************)
(* Part 6: the properties                                                  *)
(***************************************************************************)

\* C1: a call of add_event with an empty calendar_id, summary, start_time or
\* end_time, and a call of create_calendar with an empty summary, fails on
\* the local assertion and issues no network call: the insertion is never
\* reached and nothing comes back from the service.
C1_ValidationBeforeNetwork ==
    LET emptyAdd == /\ call.op = "add_event"
                    /\ \/ call.args.calendar_id = ""
                       \/ call.args.summary = ""
                       \/ call.args.start_time = <<>>
                       \/ call.args.end_time = <<>>
        emptyCreate == /\ call.op = "create_calendar"
                       /\ call.args.summary = ""
    IN  (emptyAdd \/ emptyCreate) =>
            /\ call.outcome = "AssertionError"
            /\ call.networkCalls = 0
            /\ call.response = NoValue

\* add_event was called with a session and every detail but end_time.
C1_Witness ==
    /\ call.op = "add_event"
    /\ call.args.service # NoSession
    /\ call.args.calendar_id = "primary"
    /\ call.args.summary = "Meeting"
    /\ call.args.start_time # <<>>
    /\ call.args.end_time = <<>>
    /\ call.outcome = "AssertionError"

\* C2: a run of get_calendar_service that loads from token.json a credential
\* with a token that has not expired returns the session without a refresh,
\* without any network call and without the interactive flow.
C2_ValidTokenNoNetworkNoFlow ==
    (/\ auth.outcome # "none"
     /\ auth.loaded # NoCreds
     /\ auth.loaded.token # 0
     /\ auth.at < auth.loaded.expiry)
    => /\ auth.outcome = "returned"
       /\ auth.path = "loaded"
       /\ auth.networkCalls = 0
       /\ auth.refreshCalls = 0
       /\ auth.flowCalls = 0

\* A run returned the credential it found in token.json.
C2_Witness ==
    /\ auth.outcome = "returned"
    /\ auth.path = "loaded"
    /\ auth.loaded.token # 0
    /\ auth.at < auth.loaded.expiry

\* C3 as stated: every run in which the refresh call fails goes on to invoke
\* the interactive consent flow.
C3_RefreshFailureFallsBack ==
    auth.refreshFailed => auth.flowCalls >= 1

\* C3 as amended: a run in which the refresh call fails ends with the refresh
\* error raised to the caller after that one network call; the interactive
\* flow is not invoked.
C3_RefreshFailureRaises ==
    auth.refreshFailed =>
        /\ auth.outcome = "RefreshError"
        /\ auth.refreshCalls = 1
        /\ auth.networkCalls = 1
        /\ auth.flowCalls = 0

\* A run loaded an expired credential with a refresh token, and the refresh
\* failed.
C3_Witness ==
    /\ auth.refreshFailed
    /\ auth.loaded # NoCreds
    /\ auth.loaded.refresh_token # 0
    /\ auth.at >= auth.loaded.expiry

\* C4: when get_calendar_service returns, the credential wrapped by the
\* session has a token that is unexpired at that time and carries the
\* required scope, whether it was loaded, refreshed or newly consented.
C4_ReturnedCredentialUsable ==
    auth.outcome = "returned" =>
        /\ session # NoSession
        /\ session.credentials # NoCreds
        /\ session.credentials.token # 0
        /\ auth.at < session.credentials.expiry
        /\ SCOPES \subseteq session.credentials.scopes

\* A run found an expired credential, refreshed it and returned.
C4_Witness ==
    /\ auth.outcome = "returned"
    /\ auth.path = "refresh"
    /\ auth.at >= auth.loaded.expiry
    /\ session # NoSession

\* C5: every step in which get_calendar_service obtains a new credential (by
\* refresh or by consent) returns a session and leaves token.json holding
\* exactly the serialisation of the credential that session wraps.
C5_PersistedAfterChange ==
    [][issued' # issued =>
          /\ auth'.outcome = "returned"
          /\ auth'.path \in {"refresh", "consent"}
          /\ session' # NoSession
          /\ tokenFile' = to_json(session'.credentials)]_vars

\* A run replaced a credential that was in token.json by a consented one.
C5_Witness ==
    /\ auth.outcome = "returned"
    /\ auth.path = "consent"
    /\ auth.loaded # NoCreds
    /\ tokenFile = to_json(session.credentials)
    /\ tokenFile.token # auth.loaded.token

\* C6 as stated: on success add_event returns the event reference the service
\* assigned, and create_calendar returns the calendar the service created.
C6_ReturnsServiceReference ==
    (call.op \in {"add_event", "create_calendar"} /\ call.outcome = "ok")
    => call.ret = call.response

\* C6 as amended: on success add_event and create_calendar have made exactly
\* one insertion call and return None; the link of the event, and the title
\* and identifier of the calendar, are printed when verbosity is set and are
\* otherwise dropped.
C6_ReturnsNone ==
    /\ (call.op = "add_event" /\ call.outcome = "ok") =>
           /\ call.ret = NoValue
           /\ call.networkCalls = 1
           /\ call.printed = IF call.args.verbosity
                             THEN <<call.response.htmlLink>> ELSE <<>>
    /\ (call.op = "create_calendar" /\ call.outcome = "ok") =>
           /\ call.ret = NoValue
           /\ call.networkCalls = 1
           /\ call.response.summary = call.args.summary
           /\ call.printed = IF call.args.verbosity
                             THEN <<call.args.summary, call.response.id>>
                             ELSE <<>>

\* add_event succeeded with verbosity set.
C6_Witness ==
    /\ call.op = "add_event"
    /\ call.outcome = "ok"
    /\ call.args.verbosity
    /\ call.response # NoValue

\* C7: a fetch whose enumeration and list calls all return, every one of them
\* without events (no calendars at all included), succeeds with an empty
\* result and the empty-result warning.
C7_EmptyFetchWarns ==
    (/\ call.op = "fetch_events"
     /\ call.args.service # NoSession
     /\ call.args.date # <<>>
     /\ call.outcome # "ApiError"
     /\ \A i \in 1..Len(call.responses) : call.responses[i] = <<>>)
    => /\ call.outcome = "ok"
       /\ call.ret = <<>>
       /\ call.warned

\* A fetch enumerated two calendars, found no event in either and warned.
C7_Witness ==
    /\ call.op = "fetch_events"
    /\ call.outcome = "ok"
    /\ Len(call.calendar_list) = 2
    /\ call.ret = <<>>
    /\ call.warned

\* The instant a row's 'Event Start' or 'Event End' string denotes.
RowInstant(t) ==
    IF Len(t) = 2 THEN ZoneInstant(t[1], t[2] * 60) ELSE ZoneInstant(t[1], 0)

\* C8 as stated: every row of a fetch has start <= end, and its calendar name
\* is the name of an enumerated calendar.
C8_RowsStartBeforeEnd ==
    (call.op = "fetch_events" /\ call.outcome = "ok") =>
        \A k \in 1..Len(call.ret) :
            /\ RowInstant(call.ret[k].EventStart)
                   <= RowInstant(call.ret[k].EventEnd)
            /\ call.ret[k].CalendarName \in CalendarNamesOf(call.calendar_list)

\* C8 as amended: every row's calendar name is the name of an enumerated
\* calendar, and its start and end are the start and end (dateTime if
\* present, else date) of an event the service returned for that calendar;
\* so a row has start <= end exactly when the service's event has.
C8_RowsMirrorService ==
    (call.op = "fetch_events" /\ call.outcome = "ok") =>
        \A k \in 1..Len(call.ret) :
            /\ call.ret[k].CalendarName \in CalendarNamesOf(call.calendar_list)
            /\ \E i \in 1..Len(call.calendar_list) :
               \E j \in 1..Len(call.responses[i]) :
                  LET e == call.responses[i][j]
                      s == IF "dateTime" \in DOMAIN e.start
                           THEN e.start.dateTime ELSE e.start.date
                      f == IF "dateTime" \in DOMAIN e["end"]
                           THEN e["end"].dateTime ELSE e["end"].date
                  IN  /\ call.calendar_list[i].summary
                             = call.ret[k].CalendarName
                      /\ call.ret[k].EventStart = s
                      /\ call.ret[k].EventEnd = f
                      /\ (RowInstant(call.ret[k].EventStart)
                              <= RowInstant(call.ret[k].EventEnd))
                         = (TimeInstant(e.start) <= TimeInstant(e["end"]))

\* A fetch returned a row whose start is after its end.
C8_Witness ==
    /\ call.op = "fetch_events"
    /\ call.outcome = "ok"
    /\ \E k \in 1..Len(call.ret) :
          RowInstant(call.ret[k].EventStart) > RowInstant(call.ret[k].EventEnd)

\* C9: a fetch for the day of the event that add_event has just inserted
\* returns a row for that event whose start and end are the strings passed to
\* add_event.
C9_RoundTrip ==
    (/\ call.op = "fetch_events"
     /\ call.outcome = "ok"
     /\ lastAdd # NoAdd
     /\ call.args.date = <<lastAdd.start_time[1]>>)
    => \E k \in 1..Len(call.ret) :
          /\ call.ret[k].EventSummary = lastAdd.summary
          /\ call.ret[k].EventStart = lastAdd.start_time
          /\ call.ret[k].EventEnd = lastAdd.end_time

\* The round trip of C9 for events on days on which Asia/Jerusalem is at
\* UTC+2, the offset written into the window: it holds there.
RoundTripInStandardTime ==
    (/\ call.op = "fetch_events"
     /\ call.outcome = "ok"
     /\ lastAdd # NoAdd
     /\ call.args.date = <<lastAdd.start_time[1]>>
     /\ UtcOffsetMinutes(lastAdd.start_time[1]) = 120)
    => \E k \in 1..Len(call.ret) :
          /\ call.ret[k].EventSummary = lastAdd.summary
          /\ call.ret[k].EventStart = lastAdd.start_time
          /\ call.ret[k].EventEnd = lastAdd.end_time

\* The number of rows that the calendars before the i-th contribute.
RECURSIVE RowsBefore(_, _)
RowsBefore(responses, i) ==
    IF i <= 1 THEN 0
    ELSE RowsBefore(responses, i - 1) + Len(responses[i - 1])

\* C10: the result of a fetch is the concatenation, in enumeration order of
\* the calendars, of one row per event of each calendar's single list call,
\* in the order the service returned them, which is by start time ascending;
\* the fetch made one enumeration call and one list call per calendar.
C10_RowsInServiceOrder ==
    (call.op = "fetch_events" /\ call.outcome = "ok") =>
        LET n == Len(call.calendar_list)
        IN  /\ Len(call.responses) = n
            /\ call.networkCalls = 1 + n
            /\ Len(call.ret) = RowsBefore(call.responses, n + 1)
            /\ \A i \in 1..n : \A j \in 1..Len(call.responses[i]) :
                  /\ call.ret[RowsBefore(call.responses, i) + j]
                         = EventData(call.calendar_list[i].summary,
                                     call.responses[i][j])
                  /\ j > 1 => TimeInstant(call.responses[i][j - 1].start)
                                  <= TimeInstant(call.responses[i][j].start)

\* A fetch returned two rows of one calendar whose events were stored in the
\* opposite order of their start times.
C10_Witness ==
    /\ call.op = "fetch_events"
    /\ call.outcome = "ok"
    /\ Len(call.ret) = 2
    /\ call.ret[1].CalendarName = call.ret[2].CalendarName
    /\ RowInstant(call.ret[1].EventStart) < RowInstant(call.ret[2].EventStart)
    /\ Len(events) = 2
    /\ TimeInstant(events[1].item.start) > TimeInstant(events[2].item.start)

====
